---- MODULE Spec2Model ----
(***************************************************************************)
(* pyrasdr: BaseRASDR / RASDR4 (src/pyrasdr/base.py, src/pyrasdr/rasdr4.py) *)
(*                                                                         *)
(* Number representation.  The code works on Python floats; the model uses *)
(* exact numbers:                                                          *)
(*   - frequencies (fc, tcxo, requested frequency) in units of 10 kHz,     *)
(*   - sample rate and bandwidth in Hz,                                    *)
(*   - gains in hundredths of a dB,                                        *)
(*   - every quotient the code forms (tcxo*r/n, 1.0/r, sample/half-scale,  *)
(*     the OTM time offset) as a reduced fraction [num, den], den > 0.     *)
(* float(x) of a request is the request itself on these values.            *)
(***************************************************************************)
EXTENDS Integers, Sequences, FiniteSets, TLC

VARIABLES
    state,          \* BaseRASDR.state: the AttributeDict bound in the class body
    objs,           \* the receiver objects constructed so far
    last,           \* the call made last: [op, obj, arg]
    err,            \* the exception the last call raised, or "none"
    buf,            \* the 16-bit words of the buffer handed to _packed_bytes_to_iq
    iq_polarity,    \* its iq_polarity argument
    otm_polarity,   \* its otm_polarity argument
    ret             \* what _packed_bytes_to_iq returned

vars == <<state, objs, last, err, buf, iq_polarity, otm_polarity, ret>>

----------------------------------------------------------------------------
(* Bounds of the model *)

MaxObjects == 2         \* receiver objects that are constructed
MaxWords == 4           \* longest buffer, in 16-bit words

Objects == 1..MaxObjects

(* Requests handed to the setters *)
FreqRequests == {-396288, -1, 0, 500, 991, 30720, 40000, 142040, 396288, 500000}
RateRequests == {500000, 1000000, 10000000, 32000000, 40000000}
BandwidthRequests == {500000, 750000, 8000000, 28000000, 30000000}
GainRequests == {-100, 0, 100, 400, 3117, 5600, 6117, 6200}

(* Words a buffer is made of: bit 15 = OTM, bit 12 = I/Q flag, bits 11-0 =  *)
(* sample, with and without the unused bits 14 and 13.                      *)
\*   0x0001  0x1FFF  0x8800  0xF123  0x6ABC
WordSamples == {1, 8191, 34816, 61731, 27324}

----------------------------------------------------------------------------
(* Exact fractions standing for the floats of the code *)

Abs(x) == IF x < 0 THEN -x ELSE x

RECURSIVE GCD(_, _)
GCD(x, y) == IF y = 0 THEN x ELSE GCD(y, x % y)

Rat(n, d) ==
    LET g == GCD(Abs(n), d)
    IN  [num |-> n \div g, den |-> d \div g]

----------------------------------------------------------------------------
(* Class constants, base.py:36-41 *)

DEFAULT_GAIN == <<600, 2517, 0>>
DEFAULT_FC == 40000
DEFAULT_SR == 2000000
DEFAULT_BW == 1500000
DEFAULT_SAMPLES == 2048
REFERENCE_FREQ == 3072

(* The dict of base.py:48-61.  It is built once, when the class body runs,  *)
(* and bound to the class attribute `state`.                                *)
ClassState ==
    [ instance   |-> "None",
      channel    |-> "None",
      open       |-> FALSE,
      simulation |-> FALSE,
      gain       |-> DEFAULT_GAIN,
      fc         |-> Rat(DEFAULT_FC, 1),
      sr         |-> DEFAULT_SR,
      sps        |-> Rat(1, DEFAULT_SR),
      bw         |-> DEFAULT_BW,
      samples    |-> DEFAULT_SAMPLES,
      tcxo       |-> REFERENCE_FREQ,
      tuner      |-> [r |-> 10, n |-> 1] ]

(* Names a function body can resolve besides its own locals: the globals of *)
(* module base (base.py:17-35).                                             *)
ModuleGlobals ==
    {"np", "RASDRException", "PolarityException", "ParameterError",
     "AttributeDict", "BaseRASDR"}

NameBound(name, locals) == name \in (locals \cup ModuleGlobals)

NoRet == [ok |-> FALSE, iq |-> <<>>, otm_index |-> -1, offset |-> Rat(0, 1)]

----------------------------------------------------------------------------
(* open / close / __init__ *)

\* self.state, as every method reads it: the lookup finds no `state` in the
\* instance (no method assigns self.state, the setters store into the dict
\* it names), so it yields the attribute of the class, whatever the object.
SelfState(o) == state

\* base.py:89-92.  instance is the argument (0 by default), channel is set
\* to 0 whatever the argument; both are written as strings here, like None.
OpenState(s, instance, simulation) ==
    [s EXCEPT !.instance = instance, !.channel = "0",
              !.simulation = simulation, !.open = TRUE]

Construct(o, simulation) ==
    /\ o \notin objs
    /\ objs' = objs \cup {o}
    /\ state' = OpenState(state, "0", simulation)
    /\ last' = [op |-> "init", obj |-> o, arg |-> IF simulation THEN 1 ELSE 0]
    /\ err' = "none"
    /\ UNCHANGED <<buf, iq_polarity, otm_polarity, ret>>

Open(o, simulation) ==
    /\ o \in objs
    /\ state' = OpenState(state, "0", simulation)
    /\ last' = [op |-> "open", obj |-> o, arg |-> IF simulation THEN 1 ELSE 0]
    /\ err' = "none"
    /\ UNCHANGED <<objs, buf, iq_polarity, otm_polarity, ret>>

Close(o) ==
    /\ o \in objs
    /\ state' = [state EXCEPT !.open = FALSE]
    /\ last' = [op |-> "close", obj |-> o, arg |-> 0]
    /\ err' = "none"
    /\ UNCHANGED <<objs, buf, iq_polarity, otm_polarity, ret>>

\* load, base.py:98-109: `pass`
Load(o) ==
    /\ o \in objs
    /\ last' = [op |-> "load", obj |-> o, arg |-> 0]
    /\ err' = "none"
    /\ UNCHANGED <<state, objs, buf, iq_polarity, otm_polarity, ret>>

\* read and read_samples, base.py:221-224: raise NotImplementedError('TODO')
Read(o) ==
    /\ o \in objs
    /\ last' = [op |-> "read", obj |-> o, arg |-> 0]
    /\ err' = "NotImplementedError"
    /\ UNCHANGED <<state, objs, buf, iq_polarity, otm_polarity, ret>>

ReadSamples(o) ==
    /\ o \in objs
    /\ last' = [op |-> "read_samples", obj |-> o, arg |-> 0]
    /\ err' = "NotImplementedError"
    /\ UNCHANGED <<state, objs, buf, iq_polarity, otm_polarity, ret>>

----------------------------------------------------------------------------
(* _set_center_freq, base.py:111-125 *)

TunerR == 10..129       \* range(10,130,1)
TunerN == 1..31         \* range(1,32)

\* Mutant of Candidate: n taken from range(1,31)
Candidate_ShortN(i) == [r |-> 10 + (i \div 31), n |-> 1 + (i % 30)]

\* a[i], 0-based: r is the outer loop of the comprehension, n the inner one
Candidate(i) == [r |-> 10 + (i \div 31), n |-> 1 + (i % 31)]
NumCandidates == Cardinality(TunerR) * Cardinality(TunerN)

\* f: the frequency of a pair
CandFreq(tcxo, p) == Rat(tcxo * p.r, p.n)

\* Mutant of ErrLess: the difference compared without squaring it
ErrLess_Signed(tcxo, p, q, frequency) ==
    (tcxo * p.r - frequency * p.n) * q.n < (tcxo * q.r - frequency * q.n) * p.n

\* e[p] < e[q] for e = square(f - frequency).  Squares order as absolute
\* values do, and |tcxo*r/n - frequency| = |tcxo*r - frequency*n| / n.
ErrLess(tcxo, p, q, frequency) ==
    Abs(tcxo * p.r - frequency * p.n) * q.n
        < Abs(tcxo * q.r - frequency * q.n) * p.n

\* e.argmin(): the first index holding the minimum of e.  ArgMinIn(.., lo, hi)
\* is that index for e[lo..hi]: the minimum of the lower half unless the
\* upper half holds a strictly smaller error.
RECURSIVE ArgMinIn(_, _, _, _)
ArgMinIn(tcxo, frequency, lo, hi) ==
    IF lo = hi THEN lo
    ELSE LET mid == (lo + hi) \div 2
             lower == ArgMinIn(tcxo, frequency, lo, mid)
             upper == ArgMinIn(tcxo, frequency, mid + 1, hi)
         IN  IF ErrLess(tcxo, Candidate(upper), Candidate(lower), frequency)
             THEN upper ELSE lower

ArgMinOf(tcxo, frequency) == ArgMinIn(tcxo, frequency, 0, NumCandidates - 1)

\* The search is a pure function of (tcxo, frequency): its results for the
\* reference clock and the requests of the model are computed once.
ArgMinTable == {<<fr, ArgMinOf(REFERENCE_FREQ, fr)>> : fr \in FreqRequests}

ArgMin(tcxo, frequency) ==
    IF tcxo = REFERENCE_FREQ /\ frequency \in FreqRequests
    THEN (CHOOSE t \in ArgMinTable : t[1] = frequency)[2]
    ELSE ArgMinOf(tcxo, frequency)

SetCenterFreq(o, frequency) ==
    /\ o \in objs
    /\ LET p == Candidate(ArgMin(state.tcxo, frequency))
       IN  state' = [state EXCEPT !.tuner = [r |-> p.r, n |-> p.n],
                                  !.fc = CandFreq(state.tcxo, p)]
    /\ last' = [op |-> "set_fc", obj |-> o, arg |-> frequency]
    /\ err' = "none"
    /\ UNCHANGED <<objs, buf, iq_polarity, otm_polarity, ret>>

\* _get_center_freq, base.py:127-129
get_center_freq(o) == SelfState(o).fc

----------------------------------------------------------------------------
(* _set_sample_rate, base.py:131-145 *)

SR_MIN == 1000000       \* 1e6
SR_MAX == 32000000      \* 32e6

\* Mutant of RateOutOfLimits: the limits themselves rejected
RateOutOfLimits_Exclusive(r) == r <= SR_MIN \/ r >= SR_MAX

\* the test of base.py:142
RateOutOfLimits(r) == r < SR_MIN \/ r > SR_MAX

\* 1.0/r, base.py:145
Reciprocal(r) == Rat(1, r)

SetSampleRate(o, rate) ==
    /\ o \in objs
    /\ IF RateOutOfLimits(rate)
       THEN /\ err' = "ParameterError"
            /\ UNCHANGED state
       ELSE /\ err' = "none"
            /\ state' = [state EXCEPT !.sr = rate, !.sps = Reciprocal(rate)]
    /\ last' = [op |-> "set_sr", obj |-> o, arg |-> rate]
    /\ UNCHANGED <<objs, buf, iq_polarity, otm_polarity, ret>>

\* _get_sample_rate, base.py:147-149
get_sample_rate(o) == SelfState(o).sr

----------------------------------------------------------------------------
(* _set_bandwidth, base.py:151-164 *)

BW_MIN == 750000        \* 0.75e6

\* The names bound in the body of _set_bandwidth when line 162 runs
SetBandwidthLocals == {"self", "bandwidth", "bw"}

\* `bw < 0.75e6 or r > 28e6`: the second operand is evaluated only when the
\* first is false, and it reads the name r, which is bound nowhere, so the
\* comparison with 28e6 is never made.
SetBandwidthOutcome(bw) ==
    IF bw < BW_MIN THEN "ParameterError"
    ELSE IF ~NameBound("r", SetBandwidthLocals) THEN "NameError"
    ELSE "none"

SetBandwidth(o, bandwidth) ==
    /\ o \in objs
    /\ err' = SetBandwidthOutcome(bandwidth)
    /\ IF err' = "none"
       THEN state' = [state EXCEPT !.bw = bandwidth]
       ELSE UNCHANGED state
    /\ last' = [op |-> "set_bw", obj |-> o, arg |-> bandwidth]
    /\ UNCHANGED <<objs, buf, iq_polarity, otm_polarity, ret>>

\* _get_bandwidth, base.py:166-168
get_bandwidth(o) == SelfState(o).bw

----------------------------------------------------------------------------
(* _set_gain, base.py:170-212 *)

LNA_MID == 300          \* 3.0
LNA_MAX == 600          \* 6.0
VGA1_MAX == 2517        \* 25.17
VGA2_MAX == 3000        \* 30.0
VGA2_STEP == 300        \* 3.0, and the 3 of int(g/3.0)*3

\* The names bound in the body of _set_gain when line 192 runs
SetGainLocals == {"self", "gain", "g"}

\* `bw < 0.0 or r > 61.17`: the first operand reads the name bw, which is
\* bound nowhere, so the test raises before it compares anything.
SetGainOutcome(g) ==
    IF ~NameBound("bw", SetGainLocals) THEN "NameError"
    ELSE "none"

\* int(x) of a float quotient a/b, b > 0: truncation toward zero
IntTrunc(a, b) == IF a >= 0 THEN a \div b ELSE -((-a) \div b)

\* base.py:194-211: the stages, in the order the code assigns them
GainStages(gain) ==
    LET lna  == IF gain > LNA_MID THEN LNA_MAX
                ELSE IF gain > 0 THEN LNA_MID ELSE 0
        g1   == gain - lna
        vga1 == IF g1 > VGA1_MAX THEN VGA1_MAX ELSE g1
        g2   == g1 - vga1
        vga2 == IF g2 > VGA2_MAX THEN VGA2_MAX
                ELSE IntTrunc(g2, VGA2_STEP) * VGA2_STEP
    IN  <<lna, vga1, vga2>>

SetGain(o, gain) ==
    /\ o \in objs
    /\ err' = SetGainOutcome(gain)
    /\ IF err' = "none"
       THEN state' = [state EXCEPT !.gain = GainStages(gain)]
       ELSE UNCHANGED state
    /\ last' = [op |-> "set_gain", obj |-> o, arg |-> gain]
    /\ UNCHANGED <<objs, buf, iq_polarity, otm_polarity, ret>>

\* _get_gain, base.py:214-219
get_gain(o) ==
    SelfState(o).gain[1] + SelfState(o).gain[2] + SelfState(o).gain[3]

----------------------------------------------------------------------------
(* _packed_bytes_to_iq, base.py:226-265 *)

\* A buffer is given by its 16-bit little-endian words, each the unsigned
\* value lo + 256*hi of two bytes.  np.frombuffer(bytes, dtype='<i2') reads
\* each as a signed two's-complement number.
Int16(w) == IF w >= 32768 THEN w - 65536 ELSE w
FromBuffer(words) == [i \in 1..Len(words) |-> Int16(words[i])]

\* x & mask on a signed 16-bit x and a mask in 0..65535, bit by bit on the
\* two's-complement pattern of x
RECURSIVE AndBits(_, _)
AndBits(p, m) ==
    IF m = 0 THEN 0
    ELSE (p % 2) * (m % 2) + 2 * AndBits(p \div 2, m \div 2)

BitAnd(x, mask) == AndBits((x + 65536) % 65536, mask)

\* Mutant of MASK_IQ: bit 13 tested in place of bit 12
MASK_IQ_Bit13 == 2 * 4096

MASK_IQ == 4096         \* 0x1000
MASK_OTM == 32768       \* 0x8000: beyond int16, so numpy forms b & 0x8000 in
                        \* int32 and the result is 0 or 32768
MASK_SAMPLE == 4095     \* 0xFFF

\* b[start::2]
Slice(b, start) ==
    [k \in 1..((Len(b) - start + 1) \div 2) |-> b[start + 2 * k - 1]]

\* b & mask, element by element
Masked(b, mask) == [i \in 1..Len(b) |-> BitAnd(b[i], mask)]

SeqMax(s) == CHOOSE v \in {s[i] : i \in 1..Len(s)} : \A i \in 1..Len(s) : s[i] <= v
SeqMin(s) == CHOOSE v \in {s[i] : i \in 1..Len(s)} : \A i \in 1..Len(s) : s[i] >= v

\* argmax / argmin: the 0-based index of the first element equal to v
FirstIndex(s, v) ==
    (CHOOSE i \in 1..Len(s) : s[i] = v /\ \A j \in 1..(i - 1) : s[j] # v) - 1

\* `iq.real = values`: numpy stores an array of the same length, or spreads
\* an array of length one; anything else raises ValueError
CanAssign(len, n) == len = n \/ len = 1

\* 4095/2 under Python 2, the interpreter base.py and its test are written
\* for (implicit relative import, str passed as a buffer): integer division
HALF_SCALE == 4095 \div 2

\* iq /= (4095/2); iq -= (1 + 1j), on one part of a sample
Normalize(v) == Rat(v - HALF_SCALE, HALF_SCALE)

\* Mutant of TimeOffset: (len(iq)-otm_index)*sps
TimeOffset_NoMinusOne(n, otm_index, sps) == Rat((n - otm_index) * sps.num, sps.den)

\* (len(iq)-otm_index-1)*self.state.sps, base.py:265
TimeOffset(n, otm_index, sps) == Rat((n - otm_index - 1) * sps.num, sps.den)

Raise(exception) == [err |-> exception, ret |-> NoRet]

PackedBytesToIq(words, iqp, otmp, sps) ==
    LET b    == FromBuffer(words)
        n    == Len(b) \div 2                       \* len(b)//2
        ri   == IF iqp THEN 1 ELSE 0
        qi   == IF iqp THEN 0 ELSE 1
        re   == Masked(Slice(b, ri), MASK_IQ)
        im   == Masked(Slice(b, qi), MASK_IQ)
        otm  == Masked(b, MASK_OTM)
        real == Masked(Slice(b, ri), MASK_SAMPLE)
        imag == Masked(Slice(b, qi), MASK_SAMPLE)
    IN  IF ~CanAssign(Len(real), n) \/ ~CanAssign(Len(imag), n)
        THEN Raise("ValueError")                    \* lines 254-255
        ELSE IF Len(re) = 0
        THEN Raise("ValueError")                    \* re.max() of no element
        ELSE IF SeqMax(re) > 0
        THEN Raise("PolarityException")
        ELSE IF Len(im) = 0
        THEN Raise("ValueError")                    \* im.min() of no element
        ELSE IF SeqMin(im) < 1
        THEN Raise("PolarityException")
        ELSE LET iq == [k \in 1..n |-> [re |-> Normalize(real[k]),
                                        im |-> Normalize(imag[k])]]
                 otm_index ==
                     IF otmp /\ SeqMin(otm) < 1
                     THEN FirstIndex(otm, SeqMin(otm)) \div 2
                     ELSE IF ~otmp /\ SeqMax(otm) > 0
                     THEN FirstIndex(otm, SeqMax(otm)) \div 2
                     ELSE -1
             IN  [err |-> "none",
                  ret |-> [ok |-> TRUE, iq |-> iq, otm_index |-> otm_index,
                           offset |-> TimeOffset(Len(iq), otm_index, sps)]]

Decode(o) ==
    /\ o \in objs
    /\ LET d == PackedBytesToIq(buf, iq_polarity, otm_polarity, state.sps)
       IN  /\ err' = d.err
           /\ ret' = d.ret
    /\ last' = [op |-> "decode", obj |-> o, arg |-> Len(buf)]
    /\ UNCHANGED <<state, objs, buf, iq_polarity, otm_polarity>>

----------------------------------------------------------------------------
Init ==
    /\ state = ClassState
    /\ objs = {}
    /\ last = [op |-> "import", obj |-> 0, arg |-> 0]
    /\ err = "none"
    /\ buf = <<>>
    /\ iq_polarity = FALSE
    /\ otm_polarity = FALSE
    /\ ret = NoRet

Next ==
    \/ \E o \in Objects, sim \in BOOLEAN : Construct(o, sim)
    \/ \E o \in Objects, sim \in BOOLEAN : Open(o, sim)
    \/ \E o \in Objects : Close(o)
    \/ \E o \in Objects : Load(o)
    \/ \E o \in Objects : Read(o)
    \/ \E o \in Objects : ReadSamples(o)
    \/ \E o \in Objects, f \in FreqRequests : SetCenterFreq(o, f)
    \/ \E o \in Objects, r \in RateRequests : SetSampleRate(o, r)
    \/ \E o \in Objects, b \in BandwidthRequests : SetBandwidth(o, b)
    \/ \E o \in Objects, g \in GainRequests : SetGain(o, g)

Spec == Init /\ [][Next]_vars

(* The decoder on its own: a receiver has been constructed, a buffer and    *)
(* the two polarity options are given, and the calls made are               *)
(* _set_sample_rate and _packed_bytes_to_iq.                                *)
DecodeRates == {2000000, 10000000, 40000000}
Buffers == UNION {[1..len -> WordSamples] : len \in 0..MaxWords}

InitDecode ==
    /\ state = OpenState(ClassState, "0", FALSE)
    /\ objs = {1}
    /\ last = [op |-> "init", obj |-> 1, arg |-> 0]
    /\ err = "none"
    /\ buf \in Buffers
    /\ iq_polarity \in BOOLEAN
    /\ otm_polarity \in BOOLEAN
    /\ ret = NoRet

NextDecode ==
    \/ \E o \in Objects, r \in DecodeRates : SetSampleRate(o, r)
    \/ \E o \in Objects : Decode(o)

SpecDecode == InitDecode /\ [][NextDecode]_vars

----------------------------------------------------------------------------
(* Properties *)

\* tcxo * r / n = fc, for the stored pair
DerivedFromTuner ==
    /\ state.tuner.r \in 10..129
    /\ state.tuner.n \in 1..31
    /\ state.fc.num * state.tuner.n = state.tcxo * state.tuner.r * state.fc.den

\* C1: in every state of a constructed receiver, center_freq is
\* reference_freq * r / n for the stored divider pair, r in [10,130),
\* n in [1,32).
C1_CenterFreqDerived == objs # {} => DerivedFromTuner

\* reference_freq*10/31 <= f <= reference_freq*129/1
InEnvelope(f) == f * 31 >= state.tcxo * 10 /\ f <= state.tcxo * 129

\* C2: after set_center_frequency(requested) with requested inside the
\* envelope, get_center_frequency is reference_freq*r/n for the stored pair,
\* and no pair of the range is closer to the request than the stored one.
C2_NearestPair ==
    (last.op = "set_fc" /\ InEnvelope(last.arg)) =>
        /\ err = "none"
        /\ DerivedFromTuner
        /\ get_center_freq(last.obj).num * state.tuner.n
               = state.tcxo * state.tuner.r * get_center_freq(last.obj).den
        /\ \A r2 \in 10..129, n2 \in 1..31 :
               Abs(state.tcxo * state.tuner.r - last.arg * state.tuner.n) * n2
                   <= Abs(state.tcxo * r2 - last.arg * n2) * state.tuner.n

C2_Witness ==
    /\ last.op = "set_fc" /\ last.arg = 142040
    /\ state.tuner = [r |-> 46, n |-> 1]
    /\ get_center_freq(last.obj) = [num |-> 141312, den |-> 1]

\* C3: set_total_gain(requested) fails with ParameterError exactly when
\* requested < 0 or requested > 61.17, leaving gain_stages unchanged then;
\* for every requested in [0, 61.17] it completes without error.
C3_GainLimits ==
    [][ last'.op = "set_gain" =>
            IF last'.arg < 0 \/ last'.arg > 6117
            THEN err' = "ParameterError" /\ state'.gain = state.gain
            ELSE err' = "none" ]_vars

\* C4: after set_total_gain(requested) with requested in [0, 61.17], the sum
\* of gain_stages is <= requested and >= requested - 3.0, lna is 0, 3 or 6,
\* vga1 is in [0, 25.17] and vga2 is a multiple of 3 in [0, 30].
C4_GainSum ==
    (last.op = "set_gain" /\ last.arg >= 0 /\ last.arg <= 6117) =>
        /\ get_gain(last.obj) <= last.arg
        /\ get_gain(last.obj) >= last.arg - 300
        /\ state.gain[1] \in {0, 300, 600}
        /\ state.gain[2] >= 0 /\ state.gain[2] <= 2517
        /\ state.gain[3] \in {300 * k : k \in 0..10}

\* C5: set_bandwidth(hz) fails with ParameterError when hz < 0.75e6 or
\* hz > 28e6 and leaves bandwidth unchanged; for 0.75e6 <= hz <= 28e6 it
\* completes without error and get_bandwidth returns hz.
C5_BandwidthLimits ==
    [][ last'.op = "set_bw" =>
            IF last'.arg < 750000 \/ last'.arg > 28000000
            THEN err' = "ParameterError" /\ state'.bw = state.bw
            ELSE err' = "none" /\ get_bandwidth(last'.obj)' = last'.arg ]_vars

\* C6 as stated: set_center_frequency(requested) with requested <= 0 fails
\* with ParameterError and leaves center_freq and the divider pair unchanged.
C6_RejectsNonPositive ==
    [][ (last'.op = "set_fc" /\ last'.arg <= 0) =>
            /\ err' = "ParameterError"
            /\ state'.fc = state.fc
            /\ state'.tuner = state.tuner ]_vars

\* C6 as amended: set_center_frequency raises no ParameterError; for
\* -reference_freq*129 <= requested <= 0 the call completes and commits the
\* pair (10, 31) and center_freq = reference_freq*10/31, the lowest
\* frequency of the range.
C6_NonPositiveTunesLowest ==
    (last.op = "set_fc" /\ last.arg <= 0 /\ last.arg >= -(state.tcxo * 129)) =>
        /\ err = "none"
        /\ state.tuner = [r |-> 10, n |-> 31]
        /\ state.fc.num * 31 = state.tcxo * 10 * state.fc.den

C6_Witness ==
    /\ last.op = "set_fc" /\ last.arg = 0 /\ err = "none"
    /\ state.tuner = [r |-> 10, n |-> 31]

\* C7: sample_rate stays in [1e6, 32e6] and seconds_per_sample is its
\* reciprocal; set_sample_rate(hz) with 1e6 <= hz <= 32e6 sets
\* sample_rate = hz and seconds_per_sample = 1/hz, and with hz outside the
\* range it raises ParameterError and changes neither field.
C7_SampleRate ==
    /\ [](/\ state.sr >= 1000000 /\ state.sr <= 32000000
          /\ state.sps.num * state.sr = state.sps.den)
    /\ [][ last'.op = "set_sr" =>
               IF last'.arg >= 1000000 /\ last'.arg <= 32000000
               THEN /\ err' = "none"
                    /\ get_sample_rate(last'.obj)' = last'.arg
                    /\ state'.sps.num * last'.arg = state'.sps.den
               ELSE /\ err' = "ParameterError"
                    /\ state'.sr = state.sr
                    /\ state'.sps = state.sps ]_vars

C7_Witness ==
    /\ last.op = "set_sr" /\ last.arg = 32000000 /\ err = "none"
    /\ state.sr = 32000000 /\ state.sps = [num |-> 1, den |-> 32000000]

\* bit k of a 16-bit word
Bit(w, k) == (w \div (2 ^ k)) % 2

\* The in-phase and the quadrature word of sample k (k = 1..N/2): the
\* even-indexed and the odd-indexed word of the pair when iq_polarity is
\* false, the other way round when it is true.
InPhaseWord(k) == IF iq_polarity THEN buf[2 * k] ELSE buf[2 * k - 1]
QuadratureWord(k) == IF iq_polarity THEN buf[2 * k - 1] ELSE buf[2 * k]

\* some in-phase word has bit 12 set or some quadrature word has it clear
BadPolarity ==
    \E k \in 1..(Len(buf) \div 2) :
        Bit(InPhaseWord(k), 12) = 1 \/ Bit(QuadratureWord(k), 12) = 0

\* part * (4095/2) + (4095/2) is the 12-bit sample of word w
FromLow12(part, w) == (part.num + part.den) * HALF_SCALE = (w % 4096) * part.den

\* C8: for a non-empty buffer of an even number of words, decode raises
\* PolarityException exactly when some in-phase word has bit 12 set or some
\* quadrature word has bit 12 clear; otherwise it succeeds, and each sample
\* is given by bits 11-0 of its in-phase word (real part) and of its
\* quadrature word (imaginary part).
C8_Polarity ==
    (last.op = "decode" /\ Len(buf) > 0 /\ Len(buf) % 2 = 0) =>
        /\ (err = "PolarityException") <=> BadPolarity
        /\ ~BadPolarity =>
               /\ err = "none" /\ ret.ok
               /\ Len(ret.iq) = Len(buf) \div 2
               /\ \A k \in 1..Len(ret.iq) :
                      /\ FromLow12(ret.iq[k].re, InPhaseWord(k))
                      /\ FromLow12(ret.iq[k].im, QuadratureWord(k))

C8_Witness ==
    /\ last.op = "decode" /\ err = "none" /\ iq_polarity
    /\ Len(buf) = 4 /\ buf[1] = 61731 /\ buf[2] = 27324
    /\ ret.iq[1] = [re |-> [num |-> 701, den |-> 2047],
                    im |-> [num |-> -1756, den |-> 2047]]

\* the 0-based indices of the words whose bit 15 is set / clear
OtmSet == {i \in 0..(Len(buf) - 1) : Bit(buf[i + 1], 15) = 1}
OtmClear == {i \in 0..(Len(buf) - 1) : Bit(buf[i + 1], 15) = 0}
Lowest(S) == CHOOSE i \in S : \A j \in S : i <= j

ExpectedOtmIndex ==
    IF otm_polarity
    THEN IF OtmClear = {} THEN -1 ELSE Lowest(OtmClear) \div 2
    ELSE IF OtmSet = {} THEN -1 ELSE Lowest(OtmSet) \div 2

OtmAsSpecified ==
    /\ err = "none" /\ ret.ok
    /\ ret.otm_index = ExpectedOtmIndex
    /\ ret.offset.num * state.sr
           = ((Len(buf) \div 2) - ret.otm_index - 1) * ret.offset.den

\* C9 as stated: for every correctly polarized buffer of N words, N even,
\* decode returns otm_index = floor(k/2) for the lowest word index k whose
\* bit 15 is set (otm_polarity false) or clear (otm_polarity true), or -1
\* when there is none, and otm_time_offset = (N/2 - otm_index - 1) *
\* seconds_per_sample of the last accepted set_sample_rate.
C9_OtmEveryBuffer ==
    (last.op = "decode" /\ Len(buf) % 2 = 0 /\ ~BadPolarity) => OtmAsSpecified

\* C9 as amended: the same, for every non-empty such buffer.
C9_OtmNonEmptyBuffer ==
    (last.op = "decode" /\ Len(buf) > 0 /\ Len(buf) % 2 = 0 /\ ~BadPolarity)
        => OtmAsSpecified

C9_Witness ==
    /\ last.op = "decode" /\ err = "none" /\ otm_polarity
    /\ Len(buf) = 4 /\ buf[1] = 34816 /\ buf[2] = 8191
    /\ ret.otm_index = 0
    /\ state.sr = 10000000
    /\ ret.offset = [num |-> 1, den |-> 10000000]

\* what one object's getters return
View(o) ==
    <<get_center_freq(o), get_sample_rate(o), get_bandwidth(o), get_gain(o)>>

DefaultView ==
    <<Rat(DEFAULT_FC, 1), DEFAULT_SR, DEFAULT_BW,
      DEFAULT_GAIN[1] + DEFAULT_GAIN[2] + DEFAULT_GAIN[3]>>

\* C10: each receiver object owns its state: a newly constructed object
\* reads the default configuration, and a setter, open or close on one
\* object leaves what every other object's getters return unchanged.
C10_OwnState ==
    [][ /\ last'.op = "init" => View(last'.obj)' = DefaultView
        /\ \A p \in objs : last'.obj # p => View(p)' = View(p) ]_vars
====
